---- MODULE Spec2Model ----
(***************************************************************************)
(* The todo HTTP service of src/app.js: an express application whose route *)
(* handlers read and write one mongoose model, Todo.  Every handler is an  *)
(* async function with a single await, the call on the model, so a request *)
(* is handled in two steps: the synchronous part up to the await, and the  *)
(* part after it, which runs when the store has answered.                  *)
(***************************************************************************)
EXTENDS Integers, Sequences, FiniteSets, Bags, TLC

\* ------------------------------------------------------------------ bounds
MaxLen == 2        \* longest text a client sends, in characters
MaxTodos == 2      \* documents constructed by POST /todos
MaxClock == 1      \* largest value Date.now() reaches
MaxInflight == 2   \* requests awaiting the store at the same time

\* ------------------------------------------------------------ value domains
Chars == {" ", "a"}
WhiteSpace == {" "}
Strings == UNION {[1..k -> Chars] : k \in 0..MaxLen}

\* A JSON value of the body's text field (undefined: the field is absent).
TextInputs ==
    {[kind |-> k, s |-> <<>>] : k \in {"undefined", "null", "number"}}
    \cup {[kind |-> "string", s |-> s] : s \in Strings}

\* A JSON value of the body's done field: absent, true, false, null, the
\* string "yes" and the string "banana".
DoneInputs == {"undefined", "true", "false", "null", "yes", "banana"}

\* req.params.id: the ObjectId of a document (1..MaxTodos, in the order new
\* Todo() generates them), an ObjectId that no document ever has, or a
\* string that is no ObjectId ("not-a-valid-id").
BadId == 0
Ids == 1..MaxTodos
MissingId == MaxTodos + 1

VARIABLES
    store,      \* the todos collection: _id -> document
    nextId,     \* the next ObjectId a new Todo() generates
    now,        \* Date.now()
    inflight,   \* the bag of requests whose handler awaits the store
    resp,       \* the response a step has sent, until it has left
    dbConn,     \* mongoose.connection
    proc,       \* the node process
    exitCode,   \* its exit code, -1 while it runs
    origin,     \* _id -> what the POST that constructed it asked for, until
                \* a PUT or DELETE is applied to it (history, for the claims)
    deleted,    \* the _ids a DELETE has removed
    raced       \* _id -> the two PUTs of disjoint fields that overlapped on
                \* it and were the last applied to it, until the response
                \* of the second has left (history, for the claims)

vars == <<store, nextId, now, inflight, resp, dbConn, proc, exitCode,
          origin, deleted, raced>>

\* ------------------------------------------------------- String.trim()
RECURSIVE TrimStart(_)
TrimStart(s) ==
    IF s = <<>> THEN <<>>
    ELSE IF Head(s) \in WhiteSpace THEN TrimStart(Tail(s)) ELSE s

RECURSIVE TrimEnd(_)
TrimEnd(s) ==
    IF s = <<>> THEN <<>>
    ELSE IF s[Len(s)] \in WhiteSpace THEN TrimEnd(SubSeq(s, 1, Len(s) - 1))
    ELSE s

TrimStartOnly(s) == TrimStart(s)

Trim(s) == TrimEnd(TrimStart(s))

\* ------------------------------------------------------------- the schema
\* done: { type: Boolean }: mongoose's cast of a value to Boolean.  null
\* stays null; "yes" is one of the strings it converts to true; any other
\* string is a CastError.
CastBoolean(d) ==
    CASE d \in {"true", "yes"} -> "true"
      [] d = "false" -> "false"
      [] d = "null" -> "null"
      [] OTHER -> "CastError"

\* text: { type: String, required: true }: the required validator of a
\* string path accepts a string of length > 0.
RequiredNever(s) == TRUE

RequiredOk(s) == Len(s) > 0

\* todoSchema.pre('save'): this.updatedAt = Date.now(), t being the value
\* Date.now() has when the hook runs.
PreSave(doc, t) == [doc EXCEPT !.updatedAt = t]

PreFindOneAndUpdateEpoch(update, t) == [update EXCEPT !.updatedAt = 0]

\* todoSchema.pre('findOneAndUpdate'): this.set({ updatedAt: Date.now() })
PreFindOneAndUpdate(update, t) == [update EXCEPT !.updatedAt = t]

\* ------------------------------------------------------------- requests
\* A request of the given operation and id, as the handler leaves it at
\* its await.
Request(op, id) ==
    [op |-> op, id |-> id, hasText |-> FALSE, text |-> <<>>,
     done |-> "undefined", createdAt |-> 0, updatedAt |-> 0]

Pending == BagToSet(inflight)
CanAwait == BagCardinality(inflight) < MaxInflight

\* What the body's text is: absent, null, a number, the empty string, white
\* space only, or a string with another character in it.
TextKind(text) ==
    CASE text.kind # "string" -> text.kind
      [] text.s = <<>> -> "empty"
      [] \A k \in 1..Len(text.s) : text.s[k] \in WhiteSpace -> "blank"
      [] OTHER -> "text"

NoText == [kind |-> "undefined", s |-> <<>>]

\* A response: the request it answers (operation, id, kind of the body's
\* text), the status and the JSON body (an error message or items).
NoResp ==
    [op |-> "none", id |-> 0, text |-> "undefined", status |-> 0,
     error |-> "", body |-> <<>>]

\* res.status(status).json({ error })
ErrorResp(op, id, text, status, msg) ==
    [op |-> op, id |-> id, text |-> TextKind(text), status |-> status,
     error |-> msg, body |-> <<>>]

\* res.json({ id: todo._id, text, done, createdAt, updatedAt })
Item(id, doc) ==
    [id |-> id, text |-> doc.text, done |-> doc.done,
     createdAt |-> doc.createdAt, updatedAt |-> doc.updatedAt]

ItemResp(op, id, text, status, doc) ==
    [op |-> op, id |-> id, text |-> TextKind(text), status |-> status,
     error |-> "", body |-> <<Item(id, doc)>>]

\* The text of a request in flight: a string that has passed the checks.
SentText(r) ==
    IF r.hasText THEN [kind |-> "string", s |-> r.text] ELSE NoText

\* The process runs and the response of the step before has left: every
\* response is written to its socket before the next callback runs.
Running == proc = "running" /\ resp = NoResp

Init ==
    /\ store = <<>>
    /\ nextId = 1
    /\ now = 0
    /\ inflight = EmptyBag
    /\ resp = NoResp
    /\ dbConn = "connecting"
    /\ proc = "running"
    /\ exitCode = -1
    /\ origin = <<>>
    /\ deleted = {}
    /\ raced = <<>>


\* ------------------------------------------------------------ POST /todos
\* !text: undefined, null and "" are falsy; a non-zero number is not.
Falsy(text) ==
    \/ text.kind \in {"undefined", "null"}
    \/ text.kind = "string" /\ text.s = <<>>

\* text.trim is a function only on a string; on a number the call throws a
\* TypeError, which the handler's catch block answers.
HasTrim(text) == text.kind = "string"

TextIsRequiredNoTrim(text) == Falsy(text)

\* if (!text || text.trim() === '')
TextIsRequired(text) == Falsy(text) \/ (HasTrim(text) /\ Trim(text.s) = <<>>)

\* const { text, done = false } = req.body
DoneOrDefault(done) == IF done = "undefined" THEN "false" ELSE done

RespondNothing(r) == resp' = NoResp

\* res.status(...).json(...), res.json(...), res.status(204).send()
Respond(r) == resp' = r

Await(req) == CanAwait /\ inflight' = inflight (+) SetToBag({req}) /\ resp' = NoResp

Release(r) == inflight' = inflight (-) SetToBag({r})

\* What a POST with text t and done d asks for: t without the white space
\* around it (stated without Trim: the string between two runs of white
\* space that neither starts nor ends with white space), and d when it is
\* true, false or null, false when it is absent.
IsTrimmed(t, raw) ==
    /\ t = <<>> \/ (t[1] \notin WhiteSpace /\ t[Len(t)] \notin WhiteSpace)
    /\ \E i \in 0..Len(raw) :
         /\ i + Len(t) <= Len(raw)
         /\ SubSeq(raw, i + 1, i + Len(t)) = t
         /\ \A k \in (1..i) \cup ((i + Len(t) + 1)..Len(raw)) :
              raw[k] \in WhiteSpace

Asked(raw, d) ==
    [text |-> CHOOSE t \in Strings : IsTrimmed(t, raw),
     padded |-> raw # <<>> /\ (raw[1] \in WhiteSpace \/ raw[Len(raw)] \in WhiteSpace),
     done |-> CASE d \in {"true", "false", "null"} -> d
                [] d = "undefined" -> "false"
                [] OTHER -> "other"]

Forget(id) == [i \in DOMAIN origin \ {id} |-> origin[i]]

\* Two PUTs on one id, one with a text only, the other with a done only.
DisjointPuts(r, q) ==
    /\ r.op = "put" /\ q.op = "put" /\ q.id = r.id
    /\ \/ r.hasText /\ r.done = "undefined" /\ ~q.hasText /\ q.done # "undefined"
       \/ ~r.hasText /\ r.done # "undefined" /\ q.hasText /\ q.done = "undefined"

Unraced(id) == [i \in DOMAIN raced \ {id} |-> raced[i]]

\* The history of a PUT r being applied to a stored item.  When PUTs of the
\* other field are in flight on the same id, r is the first of a pair (n = 1,
\* with what r sent and the PUTs it overlaps); when r is one of the PUTs that
\* the last PUT applied to the item overlapped, the pair is complete (n = 2,
\* with the text one of them sent and the done the other sent).
Raced(r) ==
    LET partners ==
            {q \in BagToSet(inflight (-) SetToBag({r})) : DisjointPuts(r, q)}
        first == IF r.id \in DOMAIN raced THEN raced[r.id]
                 ELSE [n |-> 0, text |-> <<>>, done |-> "undefined",
                       partners |-> {}]
    IN IF first.n = 1 /\ r \in first.partners
       THEN (r.id :> [n |-> 2,
                      text |-> IF r.hasText THEN r.text ELSE first.text,
                      done |-> IF r.hasText THEN first.done ELSE r.done,
                      partners |-> {}]) @@ raced
       ELSE IF partners # {}
       THEN (r.id :> [n |-> 1, text |-> r.text, done |-> r.done,
                      partners |-> partners]) @@ raced
       ELSE Unraced(r.id)

PostTodos(text, done) ==
    /\ Running
    /\ IF TextIsRequired(text)
       THEN /\ Respond(ErrorResp("post", 0, text, 400, "Text is required"))
            /\ UNCHANGED <<store, nextId, now, inflight, origin>>
       ELSE IF ~HasTrim(text)
       THEN /\ Respond(ErrorResp("post", 0, text, 500, "Failed to create todo"))
            /\ UNCHANGED <<store, nextId, now, inflight, origin>>
       ELSE \* new Todo({ text: text.trim(), done }), then todo.save()
            /\ nextId <= MaxTodos
            /\ nextId' = nextId + 1
            /\ \E u \in {now, now + 1} :
                 /\ u <= MaxClock
                 /\ now' = u
                 /\ IF \/ CastBoolean(DoneOrDefault(done)) = "CastError"
                       \/ ~RequiredOk(Trim(text.s))
                    THEN \* save() rejects with a ValidationError
                         /\ Respond(ErrorResp("post", 0, text, 500,
                                              "Failed to create todo"))
                         /\ UNCHANGED <<inflight, origin>>
                    ELSE 
                         \* createdAt and updatedAt default to Date.now
                         \* in new Todo(); the hook runs within save()
                         /\ Await(PreSave(
                                [op |-> "post", id |-> nextId,
                                 hasText |-> TRUE,
                                 text |-> Trim(text.s),
                                 done |-> CastBoolean(DoneOrDefault(done)),
                                 createdAt |-> now, updatedAt |-> now], u))
                         /\ origin' = origin @@ (nextId :> Asked(text.s, done))
            /\ UNCHANGED store
    /\ UNCHANGED <<dbConn, proc, exitCode, deleted, raced>>

\* await todo.save() resolves: the document is inserted, 201 is sent.
DbInsert(r) ==
    LET doc == [text |-> r.text, done |-> r.done,
                createdAt |-> r.createdAt, updatedAt |-> r.updatedAt]
    IN /\ Running
       /\ r.op = "post"
       /\ dbConn = "connected"
       /\ store' = store @@ (r.id :> doc)
       /\ Respond(ItemResp("post", r.id, SentText(r), 201, doc))
       /\ Release(r)
       /\ UNCHANGED <<nextId, now, dbConn, proc, exitCode, origin, deleted,
                      raced>>

\* ------------------------------------------------------- GET /todos/:id
GetTodo(id) ==
    /\ Running
    /\ IF id = BadId
       THEN \* findById rejects with a CastError
            /\ Respond(ErrorResp("get", id, NoText, 400, "Invalid todo ID format"))
            /\ UNCHANGED inflight
       ELSE 
            /\ Await(Request("get", id))
    /\ UNCHANGED <<store, nextId, now, dbConn, proc, exitCode, origin, deleted,
                   raced>>

DbFindById(r) ==
       /\ Running
       /\ r.op = "get"
       /\ dbConn = "connected"
       /\ IF r.id \in DOMAIN store
          THEN Respond(ItemResp("get", r.id, NoText, 200, store[r.id]))
          ELSE Respond(ErrorResp("get", r.id, NoText, 404, "Todo not found"))
       /\ Release(r)
       /\ UNCHANGED <<store, nextId, now, dbConn, proc, exitCode, origin,
                      deleted, raced>>

\* ------------------------------------------------------- PUT /todos/:id
\* findByIdAndUpdate(id, updateData, { new: true, runValidators: true })
\* with no upsert option: a stored document gets the fields of updateData
\* and the updatedAt the pre('findOneAndUpdate') hook has set; nothing is
\* written when no document has the id.
ApplyUpdateUpsert(st, r) ==
    LET old == IF r.id \in DOMAIN st THEN st[r.id]
               ELSE [text |-> <<>>, done |-> "false",
                     createdAt |-> r.updatedAt, updatedAt |-> r.updatedAt]
        new == [old EXCEPT
                  !.text = IF r.hasText THEN r.text ELSE @,
                  !.done = IF r.done # "undefined" THEN r.done ELSE @,
                  !.updatedAt = r.updatedAt]
    IN [i \in DOMAIN st \cup {r.id} |-> IF i = r.id THEN new ELSE st[i]]

ApplyUpdateAllTimestamps(st, r) ==
    IF r.id \in DOMAIN st
    THEN [st EXCEPT ![r.id] =
            [@ EXCEPT !.text = IF r.hasText THEN r.text ELSE @,
                      !.done = IF r.done # "undefined" THEN r.done ELSE @,
                      !.createdAt = r.updatedAt,
                      !.updatedAt = r.updatedAt]]
    ELSE st

ApplyUpdateWholeDocument(st, r) ==
    IF r.id \in DOMAIN st
    THEN [st EXCEPT ![r.id] =
            [@ EXCEPT !.text = IF r.hasText THEN r.text ELSE @,
                      !.done = IF r.done # "undefined" THEN r.done ELSE "false",
                      !.updatedAt = r.updatedAt]]
    ELSE st

ApplyUpdate(st, r) ==
    IF r.id \in DOMAIN st
    THEN [st EXCEPT ![r.id] =
            [@ EXCEPT !.text = IF r.hasText THEN r.text ELSE @,
                      !.done = IF r.done # "undefined" THEN r.done ELSE @,
                      !.updatedAt = r.updatedAt]]
    ELSE st

PutTodo(id, text, done) ==
    /\ Running
    /\ IF text.kind # "undefined" /\ ~HasTrim(text)
       THEN \* updateData.text = text.trim() throws a TypeError
            /\ Respond(ErrorResp("put", id, text, 500, "Failed to update todo"))
            /\ UNCHANGED inflight
       ELSE IF id = BadId
       THEN \* the cast of the id fails: CastError
            /\ Respond(ErrorResp("put", id, text, 400, "Invalid todo ID format"))
            /\ UNCHANGED inflight
       ELSE IF done # "undefined" /\ CastBoolean(done) = "CastError"
       THEN \* the cast of updateData.done fails: a CastError as well
            /\ Respond(ErrorResp("put", id, text, 400, "Invalid todo ID format"))
            /\ UNCHANGED inflight
       ELSE IF HasTrim(text) /\ ~RequiredOk(Trim(text.s))
       THEN \* runValidators: the required validator rejects updateData.text
            /\ Respond(ErrorResp("put", id, text, 500, "Failed to update todo"))
            /\ UNCHANGED inflight
       ELSE 
            /\ Await(PreFindOneAndUpdate(
                   [op |-> "put", id |-> id,
                    hasText |-> HasTrim(text),
                    text |-> IF HasTrim(text) THEN Trim(text.s) ELSE <<>>,
                    done |-> IF done = "undefined" THEN "undefined"
                             ELSE CastBoolean(done),
                    createdAt |-> 0, updatedAt |-> 0], now))
    /\ UNCHANGED <<store, nextId, now, dbConn, proc, exitCode, origin, deleted,
                   raced>>

DbFindOneAndUpdate(r) ==
       /\ Running
       /\ r.op = "put"
       /\ dbConn = "connected"
       /\ store' = ApplyUpdate(store, r)
       /\ IF r.id \in DOMAIN store'
          THEN Respond(ItemResp("put", r.id, SentText(r), 200, store'[r.id]))
          ELSE Respond(ErrorResp("put", r.id, SentText(r), 404, "Todo not found"))
       /\ origin' = IF r.id \in DOMAIN store THEN Forget(r.id) ELSE origin
       /\ raced' = IF r.id \in DOMAIN store THEN Raced(r) ELSE raced
       /\ Release(r)
       /\ UNCHANGED <<nextId, now, dbConn, proc, exitCode, deleted>>

\* ---------------------------------------------------- DELETE /todos/:id
DeleteTodo(id) ==
    /\ Running
    /\ IF id = BadId
       THEN /\ Respond(ErrorResp("delete", id, NoText, 400, "Invalid todo ID format"))
            /\ UNCHANGED inflight
       ELSE 
            /\ Await(Request("delete", id))
    /\ UNCHANGED <<store, nextId, now, dbConn, proc, exitCode, origin, deleted,
                   raced>>

\* findByIdAndDelete(id)
RemoveNothing(st, id) == st

Remove(st, id) == [i \in DOMAIN st \ {id} |-> st[i]]

DbFindOneAndDelete(r) ==
       /\ Running
       /\ r.op = "delete"
       /\ dbConn = "connected"
       /\ store' = Remove(store, r.id)
       /\ IF r.id \in DOMAIN store
          THEN /\ Respond(ErrorResp("delete", r.id, NoText, 204, ""))
               /\ deleted' = deleted \cup {r.id}
               /\ origin' = Forget(r.id)
          ELSE /\ Respond(ErrorResp("delete", r.id, NoText, 404, "Todo not found"))
               /\ UNCHANGED <<deleted, origin>>
       /\ raced' = Unraced(r.id)
       /\ Release(r)
       /\ UNCHANGED <<nextId, now, dbConn, proc, exitCode>>

\* ------------------------------------------------------------ GET /todos
\* sort({ createdAt: -1 }): the order of two documents in the result.
\* Documents of equal createdAt come in either order.
CreatedAscending(a, b) == a.createdAt <= b.createdAt

CreatedDescending(a, b) == a.createdAt >= b.createdAt

\* Todo.find().sort({ createdAt: -1 }): the results the store may give.
FindSorted(st) ==
    LET n == Cardinality(DOMAIN st)
        orders == {f \in [1..n -> DOMAIN st] :
                     /\ \A i, j \in 1..n : i # j => f[i] # f[j]
                     /\ \A i, j \in 1..n :
                          i < j => CreatedDescending(st[f[i]], st[f[j]])}
    IN {[k \in 1..n |-> Item(f[k], st[f[k]])] : f \in orders}

ListTodos ==
    /\ Running
    /\ Await(Request("list", 0))
    /\ UNCHANGED <<store, nextId, now, dbConn, proc, exitCode, origin, deleted,
                   raced>>

DbFind(r) ==
       /\ Running
       /\ r.op = "list"
       /\ dbConn = "connected"
       /\ \E todos \in FindSorted(store) :
            Respond([op |-> "list", id |-> 0, text |-> "undefined",
                     status |-> 200, error |-> "", body |-> todos])
       /\ Release(r)
       /\ UNCHANGED <<store, nextId, now, dbConn, proc, exitCode, origin,
                      deleted, raced>>

\* ------------------------------------------------------- store failures
FailureMessageOfMiddleware(op) == "Internal server error"

\* The message of each handler's last res.status(500).
FailureMessage(op) ==
    CASE op = "list" -> "Failed to fetch todos"
      [] op = "post" -> "Failed to create todo"
      [] op = "get" -> "Failed to fetch todo"
      [] op = "put" -> "Failed to update todo"
      [] op = "delete" -> "Failed to delete todo"

\* The awaited call rejects with an error of the driver (no connection, a
\* timeout, a network error): the catch block answers 500.
DbFault(r) ==
       /\ Running
              /\ Respond(ErrorResp(r.op, IF r.op = "post" THEN 0 ELSE r.id,
                            SentText(r), 500,
                            FailureMessage(r.op)))
       /\ origin' = IF r.op = "post" THEN Forget(r.id) ELSE origin
       /\ raced' = IF r.op = "put" THEN Unraced(r.id) ELSE raced
       /\ Release(r)
       /\ UNCHANGED <<store, nextId, now, dbConn, proc, exitCode, deleted>>

\* ---------------------------------------------------- mongoose.connect
ConnectOk ==
    /\ Running
    /\ dbConn = "connecting"
    /\ dbConn' = "connected"
    /\ resp' = NoResp
    /\ UNCHANGED <<store, nextId, now, inflight, proc, exitCode, origin, deleted,
                   raced>>

\* .catch: the error is logged and the process goes on.
ConnectFail ==
    /\ Running
    /\ dbConn = "connecting"
    /\ dbConn' = "disconnected"
    /\ resp' = NoResp
    /\ UNCHANGED <<store, nextId, now, inflight, proc, exitCode, origin, deleted,
                   raced>>

\* ------------------------------------------------------------ GET /health
\* mongoose.connection.readyState: 0 disconnected, 1 connected,
\* 2 connecting.
ReadyState ==
    CASE dbConn = "connected" -> 1
      [] dbConn = "connecting" -> 2
      [] OTHER -> 0

MongoStatusUnlessDisconnected ==
    IF ReadyState # 0 THEN "connected" ELSE "disconnected"

\* readyState === 1 ? 'connected' : 'disconnected'
MongoStatus == IF ReadyState = 1 THEN "connected" ELSE "disconnected"

\* The handler makes no call on the store: it answers in one step.
Health ==
    /\ Running
    /\ Respond([op |-> "health", id |-> 0, text |-> "undefined",
                status |-> 200, error |-> "",
                body |-> <<[status |-> "ok", timestamp |-> now,
                            mongoDB |-> MongoStatus,
                            service |-> "todo-api"]>>])
    /\ UNCHANGED <<store, nextId, now, inflight, dbConn, proc, exitCode,
                   origin, deleted, raced>>

\* ------------------------------------------------- the last two middleware
\* A request that no route matches reaches the 404 middleware.
EndpointNotFound ==
    /\ Running
    /\ Respond([op |-> "unmatched", id |-> 0, text |-> "undefined",
                status |-> 404, error |-> "Endpoint not found",
                body |-> <<>>])
    /\ UNCHANGED <<store, nextId, now, inflight, dbConn, proc, exitCode,
                   origin, deleted, raced>>

\* express.json() cannot parse the body: it passes the error to next(), no
\* route runs and the error middleware answers.
UnhandledError ==
    /\ Running
    /\ Respond([op |-> "unparsed", id |-> 0, text |-> "undefined",
                status |-> 500, error |-> "Internal server error",
                body |-> <<>>])
    /\ UNCHANGED <<store, nextId, now, inflight, dbConn, proc, exitCode,
                   origin, deleted, raced>>

\* ------------------------------------------------------------- the clock
Tick ==
    /\ Running
    /\ now < MaxClock
    /\ now' = now + 1
    /\ resp' = NoResp
    /\ UNCHANGED <<store, nextId, inflight, dbConn, proc, exitCode, origin, deleted,
                   raced>>

\* ---------------------------------------------------- process.on('SIGTERM')
\* The handler evaluates server.close: no binding named server exists (the
\* result of app.listen is not kept), so the handler throws a
\* ReferenceError before it closes anything.  Nothing catches it: node
\* ends the process with exit code 1, whatever the requests in flight.
Sigterm ==
    /\ Running
    /\ proc' = "exited"
    /\ exitCode' = 1
    /\ resp' = NoResp
    /\ UNCHANGED <<store, nextId, now, inflight, dbConn, origin, deleted,
                   raced>>

\* The ids a client can name: those of the items it has been shown (stored
\* now or deleted since), an ObjectId of its own making and a string that
\* is no ObjectId.  The id of a document is generated by new Todo() and a
\* client learns it from a response.
Known == DOMAIN store \cup deleted
IdInputs == Known \cup {MissingId, BadId}

\* The response of the last step leaves for its client.
Deliver ==
    /\ resp # NoResp
    /\ resp' = NoResp
    /\ raced' = [i \in {j \in DOMAIN raced : raced[j].n = 1} |-> raced[i]]
    /\ UNCHANGED <<store, nextId, now, inflight, dbConn, proc, exitCode,
                   origin, deleted>>

\* No request awaits the store.
Quiet == inflight = EmptyBag

\* Every body and id a client may send, one request at a time: a request
\* arrives when the one before it has been answered.
Next ==
    \/ Quiet /\ \E text \in TextInputs, done \in DoneInputs :
                  PostTodos(text, done)
    \/ Quiet /\ \E id \in IdInputs : GetTodo(id)
    \/ Quiet /\ \E id \in IdInputs, text \in TextInputs, done \in DoneInputs :
                  PutTodo(id, text, done)
    \/ Quiet /\ \E id \in IdInputs : DeleteTodo(id)
    \/ Quiet /\ ListTodos
    \/ Quiet /\ Health
    \/ Quiet /\ EndpointNotFound
    \/ Quiet /\ UnhandledError
    \/ \E r \in Pending : DbInsert(r)
    \/ \E r \in Pending : DbFindById(r)
    \/ \E r \in Pending : DbFindOneAndUpdate(r)
    \/ \E r \in Pending : DbFindOneAndDelete(r)
    \/ \E r \in Pending : DbFind(r)
    \/ \E r \in Pending : DbFault(r)
    \/ Deliver
    \/ ConnectOk
    \/ ConnectFail
    \/ Tick
    \/ Sigterm

Spec == Init /\ [][Next]_vars

\* The call a handler awaits settles: mongoose resolves or rejects every
\* call, at the latest when one of its timeouts (server selection, socket,
\* buffering) expires.
StoreAnswers ==
    \E r \in Pending :
        \/ DbInsert(r) \/ DbFindById(r) \/ DbFindOneAndUpdate(r)
        \/ DbFindOneAndDelete(r) \/ DbFind(r) \/ DbFault(r)

SpecFair == Spec /\ WF_vars(StoreAnswers)

\* Requests that overlap: up to MaxInflight await the store together.  The
\* bodies are the well-formed ones (a text that is absent or a string with
\* no white space around it, a done that is absent, true or false) and the
\* ids those of items.
PlainTexts ==
    {x \in TextInputs :
       x.kind = "undefined" \/ (x.kind = "string" /\ x.s # <<>> /\ Trim(x.s) = x.s)}
PlainDones == {"undefined", "true", "false"}

NextConcurrent ==
    \/ \E text \in PlainTexts, done \in PlainDones : PostTodos(text, done)
    \/ \E id \in Known : GetTodo(id)
    \/ \E id \in Known, text \in PlainTexts, done \in PlainDones :
         PutTodo(id, text, done)
    \/ \E id \in Known : DeleteTodo(id)
    \/ ListTodos
    \/ Health
    \/ EndpointNotFound
    \/ UnhandledError
    \/ \E r \in Pending : DbInsert(r)
    \/ \E r \in Pending : DbFindById(r)
    \/ \E r \in Pending : DbFindOneAndUpdate(r)
    \/ \E r \in Pending : DbFindOneAndDelete(r)
    \/ \E r \in Pending : DbFind(r)
    \/ \E r \in Pending : DbFault(r)
    \/ Deliver
    \/ ConnectOk
    \/ ConnectFail
    \/ Tick
    \/ Sigterm

SpecConcurrent == Init /\ [][NextConcurrent]_vars

TypeOK ==
    /\ nextId \in 1..(MaxTodos + 1)
    /\ now \in 0..MaxClock
    /\ DOMAIN store \subseteq Ids
    /\ deleted \subseteq Ids
    /\ \A i \in DOMAIN store :
         /\ store[i].done \in {"true", "false", "null"}
         /\ store[i].createdAt \in 0..MaxClock
         /\ store[i].updatedAt \in 0..MaxClock
    /\ dbConn \in {"connecting", "connected", "disconnected"}
    /\ proc \in {"running", "exited"}
    /\ exitCode \in {-1, 0, 1}

\* ------------------------------------------------------------------ claims
Blank(s) == \A k \in 1..Len(s) : s[k] \in WhiteSpace

\* C1: in every reachable state, whatever the texts POST /todos and
\* PUT /todos/:id were sent (absent, null, a number, empty, white space
\* only, padded), no stored item has a text that is empty or made of white
\* space only.
C1_TextNeverBlank == \A i \in DOMAIN store : ~Blank(store[i].text)

\* A PUT with a text of white space only has been answered while an item
\* that an earlier PUT has updated is stored.
C1_Witness ==
    \E i \in DOMAIN store :
        /\ i \notin DOMAIN origin
        /\ store[i].text = <<"a", "a">>
        /\ resp.op = "put" /\ resp.text = "blank" /\ resp.status = 500

\* C2: a POST /todos whose text is absent, empty or white space only is
\* answered 400 "Text is required"; the step that answers it starts no call
\* on the store (no request joins those in flight, no document is
\* constructed) and leaves the stored items as they were; and no POST in
\* flight carries a document of such a text.
C2_BlankTextRejected ==
    [][/\ (resp'.op = "post"
           /\ resp'.text \in {"undefined", "empty", "blank"})
          => /\ resp'.status = 400
             /\ resp'.error = "Text is required"
             /\ resp'.body = <<>>
             /\ inflight' = inflight
             /\ store' = store
             /\ nextId' = nextId
       /\ \A r \in BagToSet(inflight') : r.op = "post" => ~Blank(r.text)]_vars

\* A POST with a text of white space only has been answered 400 while an
\* item is stored.
C2_Witness ==
    /\ resp.op = "post" /\ resp.text = "blank" /\ resp.status = 400
    /\ store # <<>>

\* C3: while no PUT or DELETE has been applied to an item, the item is
\* stored with the text of the POST that created it, without the white
\* space around it, and with the done of that POST when it is true, false
\* or null (false when absent); the 201 of the POST and every 200 of a
\* GET /todos/:id carry that id, text and done, and the store answers a
\* GET on it with 200.
C3_CreatedThenRead ==
    /\ \A i \in DOMAIN store \cap DOMAIN origin :
         /\ store[i].text = origin[i].text
         /\ origin[i].done # "other" => store[i].done = origin[i].done
    /\ (resp.op \in {"post", "get"} /\ resp.status \in {200, 201}
        /\ resp.id \in DOMAIN origin)
       => /\ Len(resp.body) = 1
          /\ resp.body[1].id = resp.id
          /\ resp.body[1].text = origin[resp.id].text
          /\ origin[resp.id].done # "other"
               => resp.body[1].done = origin[resp.id].done
    /\ (resp.op = "post" /\ resp.status = 201) => resp.id \in DOMAIN origin
    /\ (resp.op = "get" /\ resp.status = 404) => resp.id \notin DOMAIN store

\* A GET has answered 200 for an item whose POST sent a padded text and no
\* done.
C3_Witness ==
    /\ resp.op = "get" /\ resp.status = 200
    /\ resp.id \in DOMAIN origin
    /\ origin[resp.id].padded
    /\ resp.body[1].text = <<"a">>
    /\ resp.body[1].done = "false"

\* The request in flight that the step answers.
Answers(r) == r \in Pending /\ inflight' = inflight (-) SetToBag({r})

\* C4: a successful PUT /todos/:id on a stored item sets the fields its body
\* holds (text, done), sets updatedAt to a value >= the one stored before,
\* leaves the fields its body omits, createdAt and every other item as they
\* were, and answers with the item as it is then stored.
C4_PutChangesOnlySentFields ==
    [][(resp'.op = "put" /\ resp'.status = 200) =>
         \A r \in Pending :
            (r.op = "put" /\ Answers(r)) =>
               /\ r.id \in DOMAIN store
               /\ DOMAIN store' = DOMAIN store
               /\ store'[r.id].text =
                     (IF r.hasText THEN r.text ELSE store[r.id].text)
               /\ store'[r.id].done =
                     (IF r.done # "undefined" THEN r.done ELSE store[r.id].done)
               /\ store'[r.id].createdAt = store[r.id].createdAt
               /\ store'[r.id].updatedAt >= store[r.id].updatedAt
               /\ \A j \in DOMAIN store \ {r.id} : store'[j] = store[j]
               /\ resp'.body = <<Item(r.id, store'[r.id])>>]_vars

\* C5: a GET, PUT or DELETE on /todos/:id whose id is no ObjectId is
\* answered 400 "Invalid todo ID format", whatever its body and whatever the
\* state of the connection.
C5_InvalidIdAlways400 ==
    (resp.op \in {"get", "put", "delete"} /\ resp.id = BadId)
    => /\ resp.status = 400
       /\ resp.error = "Invalid todo ID format"

\* C6: when the store answers a GET, PUT or DELETE on /todos/:id whose id
\* is an ObjectId that no stored item has, the answer is 404 "Todo not
\* found" and the stored items are as before; a PUT creates no item.
C6_MissingIdNotFound ==
    [][\A r \in Pending :
         (/\ r.op \in {"get", "put", "delete"}
          /\ r.id \notin DOMAIN store
          /\ Answers(r)
          /\ resp'.status # 500)
         => /\ resp'.op = r.op /\ resp'.id = r.id
            /\ resp'.status = 404
            /\ resp'.error = "Todo not found"
            /\ store' = store]_vars

\* A PUT on an id that no stored item has was answered 404 while another
\* item is stored.
C6_Witness ==
    /\ resp.op = "put" /\ resp.status = 404
    /\ resp.id \notin DOMAIN store
    /\ store # <<>>

\* C7: a DELETE the store answers for a stored item is answered 204 and
\* removes it; from then on no item of that id is stored again, and the
\* store answers every GET, PUT and DELETE on that id with 404, the PUTs
\* that were in flight when it was removed included.
C7_DeletedStaysDeleted ==
    [][/\ \A i \in deleted' : i \notin DOMAIN store'
       /\ \A r \in Pending :
            (r.op = "delete" /\ r.id \in DOMAIN store /\ Answers(r)
             /\ resp'.status # 500)
            => /\ resp'.status = 204
               /\ r.id \in deleted'
       /\ \A r \in Pending :
            (r.op \in {"get", "put", "delete"} /\ r.id \in deleted
             /\ Answers(r) /\ resp'.status # 500)
            => /\ resp'.status = 404
               /\ store' = store]_vars

\* A DELETE has removed an item while a PUT on it is in flight.
C7_Witness ==
    /\ resp.op = "delete" /\ resp.status = 204
    /\ resp.id \in deleted
    /\ \E r \in Pending : r.op = "put" /\ r.id = resp.id /\ r.hasText

C9_SigtermExitsZero ==
    proc = "exited" => (exitCode = 0 /\ dbConn = "closed")

\* C10: the process does not end, and its database connection with it,
\* while a request is in flight: no request that awaits the store is
\* abandoned.
C10_NoRequestAbandoned ==
    proc = "exited" => inflight = EmptyBag

\* C11: GET /health is answered 200 with status "ok" and with mongoDB
\* "connected" exactly when the connection is connected (ready state 1),
\* "disconnected" while it is connecting and after the connection has
\* failed; the step in which the initial connection fails leaves the process
\* running, and after it the process still answers /health.
C11_HealthAlwaysOk ==
    [][/\ resp'.op = "health"
          => /\ resp'.status = 200
             /\ Len(resp'.body) = 1
             /\ resp'.body[1].status = "ok"
             /\ resp'.body[1].mongoDB =
                  (IF dbConn' = "connected" THEN "connected" ELSE "disconnected")
             /\ dbConn' = dbConn
       /\ (dbConn = "connecting" /\ dbConn' = "disconnected")
          => /\ proc' = "running"
             /\ exitCode' = -1
             /\ ENABLED Health]_vars

\* /health has been answered after the initial connection has failed.
C11_Witness ==
    /\ dbConn = "disconnected"
    /\ proc = "running"
    /\ resp.op = "health" /\ resp.status = 200
    /\ resp.body[1].mongoDB = "disconnected"

\* C12: every request is answered exactly once and no request ends the
\* process.  A handler that awaits the store has sent nothing; the step in
\* which the awaited call settles, whatever its outcome, sends one response,
\* that of this request, and takes the request out of those in flight; a
\* handler that does not await sends its response in the step that handles
\* the request; no such step ends the process; and every request in flight
\* is answered unless a signal ends the process first.
C12_ExactlyOneResponse ==
    /\ [][/\ BagCardinality(inflight') >= BagCardinality(inflight) - 1
          /\ \A r \in Pending :
               Answers(r) => /\ resp' # NoResp
                             /\ resp'.op = r.op
                             /\ resp'.status \in {200, 201, 204, 400, 404, 500}
          /\ BagCardinality(inflight') > BagCardinality(inflight)
               => resp' = NoResp
          /\ (resp' # NoResp /\ resp' # resp)
               => /\ resp = NoResp
                  /\ inflight' = inflight \/ \E r \in Pending : Answers(r)
          /\ (resp' # NoResp \/ inflight' # inflight)
               => (proc' = "running" /\ exitCode' = -1)]_vars
    /\ (inflight # EmptyBag) ~> (inflight = EmptyBag \/ proc = "exited")

\* The store has failed a PUT and the handler has answered it, the process
\* running.
C12_Witness ==
    /\ resp.op = "put" /\ resp.status = 500 /\ resp.id \in DOMAIN store
    /\ resp.text = "undefined"
    /\ inflight = EmptyBag
    /\ proc = "running"

\* C13: when the call a handler awaits fails in the store (the id being an
\* ObjectId), the handler answers 500 with the message of its operation
\* (list, create, get, update, delete); the request is then no longer in
\* flight and no new call has been started for it (the call is made once,
\* not retried); and the stored items are as they were.
C13_StoreFailureIs500 ==
    [][\A r \in Pending :
         (Answers(r) /\ resp'.status = 500)
         => /\ resp'.op = r.op
            /\ resp'.error =
                 (CASE r.op = "list" -> "Failed to fetch todos"
                    [] r.op = "post" -> "Failed to create todo"
                    [] r.op = "get" -> "Failed to fetch todo"
                    [] r.op = "put" -> "Failed to update todo"
                    [] r.op = "delete" -> "Failed to delete todo")
            /\ resp'.body = <<>>
            /\ BagCardinality(inflight') = BagCardinality(inflight) - 1
            /\ store' = store
            /\ nextId' = nextId]_vars

\* The store has failed a DELETE of a stored item: it is answered 500 and
\* the item is still stored.
C13_Witness ==
    /\ resp.op = "delete" /\ resp.status = 500
    /\ resp.error = "Failed to delete todo"
    /\ resp.id \in DOMAIN store
    /\ inflight = EmptyBag

\* C14: a POST /todos whose text is present and is not a string (a number)
\* is answered 400 with an error message, and no call on the store is
\* started for it.
C14_MalformedTextIs400 ==
    (resp.op = "post" /\ resp.text = "number")
    => /\ resp.status = 400
       /\ resp.error # ""
       /\ inflight = EmptyBag

\* C15: in every reachable state, with requests that overlap and a clock
\* that does not go back, the updatedAt of every stored item is >= its
\* createdAt.
C15_UpdatedNotBeforeCreated ==
    \A i \in DOMAIN store : store[i].updatedAt >= store[i].createdAt

\* A PUT has been applied to an item created after the clock has advanced,
\* while another PUT on it is in flight.
C15_Witness ==
    /\ resp.op = "put" /\ resp.status = 200
    /\ resp.id \in DOMAIN store
    /\ store[resp.id].createdAt > 0
    /\ \E r \in Pending : r.op = "put" /\ r.id = resp.id

\* C16: when an item is created its updatedAt equals its createdAt: in the
\* 201 of POST /todos and in the 200 of a GET /todos/:id on an item that no
\* PUT has been applied to, updatedAt = createdAt.
C16_CreatedWithEqualTimestamps ==
    (\/ resp.op = "post" /\ resp.status = 201
     \/ resp.op = "get" /\ resp.status = 200 /\ resp.id \in DOMAIN origin)
    => resp.body[1].updatedAt = resp.body[1].createdAt

\* C17: every step leaves the createdAt of every item that stays stored as
\* it was, whatever the body of the PUT that the step applies; the 200 of a
\* PUT shows the id of the request and the createdAt stored before; and an
\* item that becomes stored has an id that no item has now or had before.
C17_IdAndCreatedAtKept ==
    [][/\ \A i \in DOMAIN store \cap DOMAIN store' :
            store'[i].createdAt = store[i].createdAt
       /\ \A i \in DOMAIN store' \ DOMAIN store : i \notin deleted
       /\ (resp'.op = "put" /\ resp'.status = 200)
          => /\ resp'.id \in DOMAIN store
             /\ resp'.body[1].id = resp'.id
             /\ resp'.body[1].createdAt = store[resp'.id].createdAt]_vars

\* A PUT with a text and a done has been applied to an item later than the
\* item was created.
C17_Witness ==
    /\ resp.op = "put" /\ resp.status = 200 /\ resp.text = "text"
    /\ resp.body[1].updatedAt > resp.body[1].createdAt
    /\ resp.body[1].done = "true"
    /\ resp.id \in DOMAIN store

\* C18: in every item returned to a client, by POST /todos, GET /todos/:id,
\* PUT /todos/:id and GET /todos, done is true or false, whatever done the
\* POST and PUT requests have sent (null and strings included).
C18_DoneAlwaysBoolean ==
    (resp.op \in {"post", "get", "put", "list"} /\ resp.status \in {200, 201})
    => \A k \in 1..Len(resp.body) : resp.body[k].done \in {"true", "false"}

\* C20: a PUT /todos/:id on a stored item whose text is the empty string or
\* white space only is answered with an error, never 200, and leaves every
\* stored item as it was (text, done and updatedAt) and starts no call on
\* the store; the answer is 500 "Failed to update todo" whenever the done of
\* the body is absent or a value the schema casts (true, false, null,
\* "yes"), so also when the body supplies a done.
C20_BlankPutRejected ==
    [][(/\ resp'.op = "put"
        /\ resp'.text \in {"empty", "blank"}
        /\ resp'.id \in DOMAIN store)
       => /\ resp'.status \in {400, 500}
          /\ resp'.body = <<>>
          /\ store' = store
          /\ inflight' = inflight
          /\ \A text \in {x \in TextInputs : x.kind = "string" /\ Blank(x.s)},
                done \in {"undefined", "true", "false", "null", "yes"} :
                PutTodo(resp'.id, text, done)
                => /\ resp'.status = 500
                   /\ resp'.error = "Failed to update todo"]_vars

\* A PUT with a blank text has been answered 500 for an item whose done is
\* true and whose updatedAt is before the present time.
C20_Witness ==
    /\ resp.op = "put" /\ resp.text = "blank" /\ resp.status = 500
    /\ resp.error = "Failed to update todo"
    /\ resp.id \in DOMAIN store
    /\ store[resp.id].done = "true"
    /\ store[resp.id].updatedAt < now

\* C19: when two PUTs on one stored item overlap, one with a text only and
\* the other with a done only, and both are applied, in either order, with
\* no other PUT applied between them, the item then has the text of the one
\* and the done of the other, and the 200 of the second shows both.
C19_DisjointPutsBothApply ==
    \A i \in DOMAIN raced :
        raced[i].n = 2
        => /\ i \in DOMAIN store
           /\ store[i].text = raced[i].text
           /\ store[i].done = raced[i].done
           /\ (resp.op = "put" /\ resp.id = i /\ resp.status = 200)
              => /\ resp.body[1].text = raced[i].text
                 /\ resp.body[1].done = raced[i].done

\* Of two overlapping PUTs on an item of text "a" and done false, the one
\* with done true was applied first and the one with text "aa" second.
C19_Witness ==
    /\ resp.op = "put" /\ resp.status = 200 /\ resp.text = "text"
    /\ resp.id \in DOMAIN raced
    /\ raced[resp.id].n = 2
    /\ raced[resp.id].text = <<"a", "a">>
    /\ raced[resp.id].done = "true"
    /\ resp.body[1].createdAt < resp.body[1].updatedAt
====
